---------------------------- MODULE Spec2Model ----------------------------
(***************************************************************************)
(* A model of the two bingo scripts: bingo_caller.py (the number caller)   *)
(* and bingo_generator.py (the card generator), and of the pure functions  *)
(* grid_dims and build_grid under bounded inputs.                          *)
(*                                                                         *)
(* A Python str is modelled as a sequence of one-character strings, so     *)
(* that int(), str() and strip() are computed and not assumed.             *)
(***************************************************************************)
EXTENDS Integers, Sequences, FiniteSets, TLC

VARIABLES
    script,       \* which program runs: "caller", "generator" or "pure"
    pc,           \* position in the program
    outcome,      \* how the process ended ("running" until it ends)
    sigAt,        \* the position at which CTRL+C arrived ("none" if it did not)
    env,          \* <<EDGE_AVAILABLE, PYTTSX_AVAILABLE>>
    start, end,   \* the range bounds
    opts,         \* caller: [mode, voice_id, pace, rate, volume]
    numbers,      \* caller: the draw order; build_grid: its candidate list
    i,            \* caller: the enumerate index of the draw loop
    called,       \* caller: the list of called numbers
    stdout,       \* caller: the numbers of the "[i/total] #n" lines printed
    remaining,    \* caller: the countdown between two numbers
    tmp,          \* caller: the temporary file of the running announcement
    files,        \* caller: the temporary files that exist
    stuck,        \* caller: the temporary files whose os.remove raised OSError
    pending,      \* caller: the exception travelling through the finally block
    summary,      \* caller: what the "Game over" lines report
    count,        \* generator: numbers per card
    num_cards,    \* generator: how many cards
    free_center,  \* generator: the FREE center option
    rows, cols,   \* generator: the grid shape
    todo,         \* generator: the card indices of the pages not yet drawn
    fig,          \* generator: the grids drawn on the page being built
    pdf           \* generator: the number of cards on each page saved

vars == <<script, pc, outcome, sigAt, env, start, end, opts, numbers, i, called,
          stdout, remaining, tmp, files, stuck, pending, summary, count,
          num_cards, free_center, rows, cols, todo, fig, pdf>>

callerVars == <<env, opts, i, called, stdout, remaining, tmp, files, stuck,
                pending, summary>>
genVars    == <<count, num_cards, free_center, rows, cols, todo, fig, pdf>>

----------------------------------------------------------------------------
(* Bounds of the exploration.                                              *)

\* the largest draw range run_caller is explored with
MaxRange == 3
\* the largest END answered to the generator's range prompt
MaxEnd == 3
\* the largest number of cards answered to the generator
MaxCards == 3
\* the largest count grid_dims is applied to on its own
MaxCount == 60
\* the largest side of a grid build_grid is applied to on its own
MaxSide == 3
\* the candidates of build_grid on its own are drawn from 1..MaxNum
MaxNum == 5

----------------------------------------------------------------------------
(* Python strings and the conversions on them.                             *)

Digits == <<"0", "1", "2", "3", "4", "5", "6", "7", "8", "9">>

IsDigit(ch) == \E d \in 1..10 : Digits[d] = ch

DigitVal(ch) == (CHOOSE d \in 1..10 : Digits[d] = ch) - 1

\* str(n) of an int
RECURSIVE Str(_)
Str(n) ==
    IF n < 0 THEN <<"-">> \o Str(-n)
    ELSE IF n < 10 THEN <<Digits[n + 1]>>
    ELSE Str(n \div 10) \o <<Digits[(n % 10) + 1]>>

\* s.strip(), with the space as the only whitespace of the alphabet
RECURSIVE Strip(_)
Strip(s) ==
    IF s = <<>> THEN s
    ELSE IF Head(s) = " " THEN Strip(Tail(s))
    ELSE IF s[Len(s)] = " " THEN Strip(SubSeq(s, 1, Len(s) - 1))
    ELSE s

RECURSIVE DigitsValue(_)
DigitsValue(s) ==
    IF s = <<>> THEN 0
    ELSE 10 * DigitsValue(SubSeq(s, 1, Len(s) - 1)) + DigitVal(s[Len(s)])

AllDigits(s) == s # <<>> /\ \A k \in 1..Len(s) : IsDigit(s[k])

\* int(s): surrounding whitespace and one sign are accepted, anything else
\* raises ValueError (ok = FALSE)
PyInt(s) ==
    LET t == Strip(s)
        signed == t # <<>> /\ Head(t) \in {"+", "-"}
        body == IF signed THEN Tail(t) ELSE t
    IN  IF AllDigits(body)
        THEN [ok |-> TRUE,
              val |-> IF signed /\ Head(t) = "-" THEN -DigitsValue(body)
                      ELSE DigitsValue(body)]
        ELSE [ok |-> FALSE, val |-> 0]

Max(a, b) == IF a >= b THEN a ELSE b
Min(a, b) == IF a <= b THEN a ELSE b

\* list(range(a, b + 1))
RangeList(a, b) == [k \in 1..Max(b - a + 1, 0) |-> a + k - 1]

SeqSet(s) == {s[k] : k \in 1..Len(s)}

\* sorted(S) of a set of ints
RECURSIVE Sorted(_)
Sorted(S) ==
    IF S = {} THEN <<>>
    ELSE LET m == CHOOSE x \in S : \A y \in S : x <= y
         IN  <<m>> \o Sorted(S \ {m})

\* every list of k distinct elements of S
RECURSIVE Arrangements(_, _)
Arrangements(S, k) ==
    IF k = 0 THEN {<<>>}
    ELSE UNION {{<<x>> \o t : t \in Arrangements(S \ {x}, k - 1)} : x \in S}

\* a faulty shuffle: draws with replacement
ShuffleWithReplacement(s) == [1..Len(s) -> SeqSet(s)]

\* random.shuffle(s): the orders it can leave s in
Shuffle(s) ==
    {[k \in 1..Len(s) |-> s[p[k]]] : p \in Arrangements(1..Len(s), Len(s))}

----------------------------------------------------------------------------
(* bingo_caller.py                                                         *)

EDGE_VOICES ==
    [k \in {"1", "2", "3", "4", "5"} |->
        CASE k = "1" -> "en-GB-RyanNeural"
          [] k = "2" -> "en-GB-SoniaNeural"
          [] k = "3" -> "en-US-GuyNeural"
          [] k = "4" -> "en-US-JennyNeural"
          [] k = "5" -> "en-AU-WilliamNeural"]

\* get_int after input(): the answer stripped, then defaulted or clamped
get_int(answer, default, lo, hi) ==
    LET val == Strip(answer)
    IN  IF val = <<>> THEN default
        ELSE IF PyInt(val).ok THEN Max(lo, Min(hi, PyInt(val).val))
        ELSE default

\* pick_voice_menu once the answer is read (EDGE_AVAILABLE holds)
pick_voice_menu(answer) ==
    LET choice == IF Strip(answer) = <<>> THEN <<"1">> ELSE Strip(answer)
    IN  IF choice = <<"6">> /\ env[2]
        THEN [voice_id |-> "None", mode |-> "pyttsx"]
        ELSE [voice_id |-> IF Len(choice) = 1 /\ choice[1] \in DOMAIN EDGE_VOICES
                           THEN EDGE_VOICES[choice[1]]
                           ELSE EDGE_VOICES["1"],
              mode |-> "edge"]

\* the answers typed at the caller's prompts
StartAnswers ==
    {<<>>, <<"x">>, <<"0">>, <<" ", "2", " ">>, <<"-", "3">>, Str(88), Str(89),
     Str(95), Str(998), Str(999), Str(1000)}
EndAnswers ==
    {<<>>, <<"x">>, Str(1), Str(3), Str(4), Str(5), Str(90), Str(97), Str(999),
     Str(1000), Str(5000)}
VoiceAnswers == {<<>>, <<"2">>, <<"6">>, <<"9">>}
PaceAnswers == {<<"0">>, <<"2">>, <<"x">>}
RateAnswers == {<<>>, Str(500)}
VolumeAnswers == {<<>>, <<"+", "9", "9">>}

NoOpts == [mode |-> "None", voice_id |-> "None", pace |-> 0, rate |-> 0,
           volume |-> 0]
NoSummary == [called |-> -1, total |-> -1, uncalled |-> <<>>]

InitCommon ==
    /\ outcome = "running"
    /\ sigAt = "none"
    /\ start = 0 /\ end = 0
    /\ opts = NoOpts
    /\ numbers = <<>>
    /\ i = 0
    /\ called = <<>>
    /\ stdout = <<>>
    /\ remaining = 0
    /\ tmp = 0
    /\ files = {}
    /\ stuck = {}
    /\ pending = "none"
    /\ summary = NoSummary
    /\ count = 0
    /\ num_cards = 0
    /\ free_center = FALSE
    /\ rows = 0 /\ cols = 0
    /\ todo = <<>>
    /\ fig = <<>>
    /\ pdf = <<>>

InitCaller ==
    /\ script = "caller"
    /\ pc = "import"
    /\ env \in BOOLEAN \X BOOLEAN
    /\ InitCommon

\* lines 27-44: the dependency check at import
DependencyCheck ==
    /\ script = "caller" /\ pc = "import"
    /\ IF ~env[1] /\ ~env[2]
       THEN pc' = "exited" /\ outcome' = "sys.exit(1)"
       ELSE pc' = "prompt_start" /\ outcome' = outcome
    /\ UNCHANGED <<script, sigAt, start, end, numbers, callerVars, genVars>>

\* line 187
PromptStart ==
    /\ script = "caller" /\ pc = "prompt_start"
    /\ \E a \in StartAnswers : start' = get_int(a, 1, 1, 999)
    /\ pc' = "prompt_end"
    /\ UNCHANGED <<script, outcome, sigAt, end, numbers, callerVars, genVars>>

\* line 188; the exploration keeps the ranges of at most MaxRange numbers
PromptEnd ==
    /\ script = "caller" /\ pc = "prompt_end"
    /\ \E a \in EndAnswers :
          /\ end' = get_int(a, 90, start + 1, 999)
          /\ end' - start + 1 <= MaxRange
    /\ pc' = IF env[1] THEN "prompt_voice" ELSE "prompt_pace"
    /\ opts' = IF env[1] THEN opts
               ELSE [opts EXCEPT !.mode = "pyttsx", !.voice_id = "None"]
    /\ UNCHANGED <<script, outcome, sigAt, start, numbers, env, i, called,
                   stdout, remaining, tmp, files, stuck, pending, summary,
                   genVars>>

\* line 190, lines 151-162: the voice menu, shown when edge-tts is there
PromptVoice ==
    /\ script = "caller" /\ pc = "prompt_voice"
    /\ \E a \in VoiceAnswers :
          opts' = [opts EXCEPT !.mode = pick_voice_menu(a).mode,
                               !.voice_id = pick_voice_menu(a).voice_id]
    /\ pc' = "prompt_pace"
    /\ UNCHANGED <<script, outcome, sigAt, start, end, numbers, env, i, called,
                   stdout, remaining, tmp, files, stuck, pending, summary,
                   genVars>>

\* line 194
PromptPace ==
    /\ script = "caller" /\ pc = "prompt_pace"
    /\ \E a \in PaceAnswers : opts' = [opts EXCEPT !.pace = get_int(a, 10, 1, 60)]
    /\ pc' = "prompt_rate"
    /\ UNCHANGED <<script, outcome, sigAt, start, end, numbers, env, i, called,
                   stdout, remaining, tmp, files, stuck, pending, summary,
                   genVars>>

\* lines 196-203: the rate prompt of either mode; pyttsx has no volume
PromptRate ==
    /\ script = "caller" /\ pc = "prompt_rate"
    /\ \E a \in RateAnswers :
          opts' = IF opts.mode = "edge"
                  THEN [opts EXCEPT !.rate = get_int(a, 0, -100, 100)]
                  ELSE [opts EXCEPT !.rate = get_int(a, 150, 50, 400)]
    /\ pc' = IF opts.mode = "edge" THEN "prompt_volume" ELSE "shuffle"
    /\ UNCHANGED <<script, outcome, sigAt, start, end, numbers, env, i, called,
                   stdout, remaining, tmp, files, stuck, pending, summary,
                   genVars>>

\* line 199
PromptVolume ==
    /\ script = "caller" /\ pc = "prompt_volume"
    /\ \E a \in VolumeAnswers :
          opts' = [opts EXCEPT !.volume = get_int(a, 0, -50, 50)]
    /\ pc' = "shuffle"
    /\ UNCHANGED <<script, outcome, sigAt, start, end, numbers, env, i, called,
                   stdout, remaining, tmp, files, stuck, pending, summary,
                   genVars>>

\* lines 209-214: the draw order, then the wait for ENTER
ShuffleNumbers ==
    /\ script = "caller" /\ pc = "shuffle"
    /\ numbers' \in Shuffle(RangeList(start, end))
    /\ pc' = "wait_enter"
    /\ UNCHANGED <<script, outcome, sigAt, start, end, callerVars, genVars>>

total == Len(numbers)

\* lines 215-218
PressEnter ==
    /\ script = "caller" /\ pc = "wait_enter"
    /\ called' = <<>>
    /\ pc' = "for"
    /\ UNCHANGED <<script, outcome, sigAt, start, end, numbers, env, opts, i,
                   stdout, remaining, tmp, files, stuck, pending, summary,
                   genVars>>

\* a faulty line 222: the number is not recorded
AppendForgotten(lst, n) == lst

\* line 222: called.append(n)
AppendCalled(lst, n) == Append(lst, n)

\* lines 220-223: the next number is taken, recorded and printed; the
\* announcement starts
NextNumber ==
    /\ script = "caller" /\ pc = "for" /\ i < total
    /\ i' = i + 1
    /\ called' = AppendCalled(called, numbers[i + 1])
    /\ stdout' = Append(stdout, numbers[i + 1])
    /\ pc' = IF opts.mode = "edge" THEN "mkstemp" ELSE "pyttsx_say"
    /\ UNCHANGED <<script, outcome, sigAt, start, end, numbers, env, opts,
                   remaining, tmp, files, stuck, pending, summary, genVars>>

\* line 220: the draw order is exhausted
LoopEnd ==
    /\ script = "caller" /\ pc = "for" /\ i >= total
    /\ pc' = "summary"
    /\ UNCHANGED <<script, outcome, sigAt, start, end, numbers, callerVars,
                   genVars>>

\* lines 123-126: mkstemp creates the file of this announcement
Mkstemp ==
    /\ script = "caller" /\ pc = "mkstemp"
    /\ tmp' = i
    /\ files' = files \cup {i}
    /\ pc' = "save"
    /\ UNCHANGED <<script, outcome, sigAt, start, end, numbers, env, opts, i,
                   called, stdout, remaining, stuck, pending, summary, genVars>>

\* line 128: communicate.save(tmp) returns, or raises (no network, ...)
Save ==
    /\ script = "caller" /\ pc = "save"
    /\ \/ pc' = "play" /\ pending' = pending
       \/ pc' = "finally" /\ pending' = "Exception"
    /\ UNCHANGED <<script, outcome, sigAt, start, end, numbers, env, opts, i,
                   called, stdout, remaining, tmp, files, stuck, summary,
                   genVars>>

\* line 129: _play_mp3_windows(tmp) returns, or raises
Play ==
    /\ script = "caller" /\ pc = "play"
    /\ pc' = "finally"
    /\ pending' \in {"none", "Exception"}
    /\ UNCHANGED <<script, outcome, sigAt, start, end, numbers, env, opts, i,
                   called, stdout, remaining, tmp, files, stuck, summary,
                   genVars>>

\* a faulty cleanup: the file is left behind
RemoveSkipped(fs, f) == fs

\* line 132: os.remove(tmp) when it succeeds
RemoveFile(fs, f) == fs \ {f}

\* lines 130-134, then what leaves speak_edge (line 226): the file is
\* removed, or os.remove raises OSError, which is swallowed; a pending
\* KeyboardInterrupt reaches the except of line 236, any other exception
\* leaves run_caller
Finally ==
    /\ script = "caller" /\ pc = "finally"
    /\ \/ files' = RemoveFile(files, tmp) /\ stuck' = stuck
       \/ files' = files /\ stuck' = stuck \cup {tmp}
    /\ tmp' = 0
    /\ pending' = "none"
    /\ CASE pending = "none" -> pc' = "spoken" /\ outcome' = outcome
         [] pending = "KeyboardInterrupt" -> pc' = "summary" /\ outcome' = outcome
         [] pending = "Exception" -> pc' = "exited" /\ outcome' = "Exception"
    /\ UNCHANGED <<script, sigAt, start, end, numbers, env, opts, i, called,
                   stdout, remaining, summary, genVars>>

\* line 228, lines 144-147
SpeakPyttsx ==
    /\ script = "caller" /\ pc = "pyttsx_say"
    /\ pc' = "spoken"
    /\ UNCHANGED <<script, outcome, sigAt, start, end, numbers, callerVars,
                   genVars>>

\* lines 230-231: the countdown starts unless this was the last number
AfterSpeak ==
    /\ script = "caller" /\ pc = "spoken"
    /\ IF i < total
       THEN pc' = "sleep" /\ remaining' = opts.pace
       ELSE pc' = "for" /\ remaining' = remaining
    /\ UNCHANGED <<script, outcome, sigAt, start, end, numbers, env, opts, i,
                   called, stdout, tmp, files, stuck, pending, summary, genVars>>

\* lines 231-234: one second of the countdown; clear_line after the last
Tick ==
    /\ script = "caller" /\ pc = "sleep"
    /\ remaining' = remaining - 1
    /\ pc' = IF remaining' = 0 THEN "for" ELSE "sleep"
    /\ UNCHANGED <<script, outcome, sigAt, start, end, numbers, env, opts, i,
                   called, stdout, tmp, files, stuck, pending, summary, genVars>>

\* lines 239-243: the report
Summary ==
    /\ script = "caller" /\ pc = "summary"
    /\ summary' = [called |-> Len(called), total |-> total,
                   uncalled |-> Sorted(SeqSet(numbers) \ SeqSet(called))]
    /\ pc' = "exited"
    /\ outcome' = "ok"
    /\ UNCHANGED <<script, sigAt, start, end, numbers, env, opts, i, called,
                   stdout, remaining, tmp, files, stuck, pending, genVars>>

\* the positions of run_caller that block, where CTRL+C arrives
CallerPrompts == {"prompt_start", "prompt_end", "prompt_voice", "prompt_pace",
                  "prompt_rate", "prompt_volume", "wait_enter"}
CallerAnnounce == {"save", "play", "pyttsx_say"}

\* a faulty try block: the countdown is outside it
TryBlockWithoutSleep == CallerAnnounce

\* lines 219-236: the blocking positions inside the try block
TryBlock == CallerAnnounce \cup {"sleep"}

\* KeyboardInterrupt in run_caller: inside the try block it is caught
\* (through the finally block of _speak_edge_async when a file is held),
\* anywhere else it ends the process
InterruptCaller ==
    /\ script = "caller" /\ pc \in CallerPrompts \cup CallerAnnounce \cup {"sleep"}
    /\ sigAt = "none"
    /\ sigAt' = pc
    /\ IF pc \in TryBlock
       THEN /\ outcome' = outcome
            /\ IF pc \in {"save", "play"}
               THEN pc' = "finally" /\ pending' = "KeyboardInterrupt"
               ELSE pc' = "summary" /\ pending' = pending
       ELSE /\ pc' = "exited"
            /\ outcome' = "KeyboardInterrupt"
            /\ pending' = pending
    /\ UNCHANGED <<script, start, end, numbers, env, opts, i, called, stdout,
                   remaining, tmp, files, stuck, summary, genVars>>

NextCaller ==
    \/ DependencyCheck
    \/ PromptStart
    \/ PromptEnd
    \/ PromptVoice
    \/ PromptPace
    \/ PromptRate
    \/ PromptVolume
    \/ ShuffleNumbers
    \/ PressEnter
    \/ NextNumber
    \/ LoopEnd
    \/ Mkstemp
    \/ Save
    \/ Play
    \/ Finally
    \/ SpeakPyttsx
    \/ AfterSpeak
    \/ Tick
    \/ Summary
    \/ InterruptCaller

SpecCaller == InitCaller /\ [][NextCaller]_vars

----------------------------------------------------------------------------
(* bingo_generator.py: the pure functions                                  *)

\* math.ceil(math.sqrt(n)) for n >= 0
CeilSqrt(n) == CHOOSE c \in 0..n : c * c >= n /\ \A d \in 0..(c - 1) : d * d < n

\* math.ceil(n / c) for c > 0
CeilDiv(n, c) == (n + c - 1) \div c

\* a faulty grid_dims: the rows are rounded down
grid_dims_floor(n) == <<n \div CeilSqrt(n), CeilSqrt(n)>>

\* grid_dims(n) = (rows, cols), for n >= 1
grid_dims(n) == <<CeilDiv(n, CeilSqrt(n)), CeilSqrt(n)>>

\* grid_dims(n) raises ZeroDivisionError: cols is 0
grid_dims_raises(n) == CeilSqrt(n) = 0

BLANK == <<>>
FREE == <<"F", "R", "E", "E">>

EmptyGrid(r_, c_) == [r \in 1..r_ |-> [c \in 1..c_ |-> BLANK]]

\* a faulty loop body: the FREE cell is placed on grids of any shape
RECURSIVE FillFromAnyShape(_, _, _, _, _, _, _)
FillFromAnyShape(p, idx, grid, nums, r_, c_, free) ==
    IF p >= r_ * c_ THEN grid
    ELSE LET r == p \div c_
             c == p % c_
         IN  IF free /\ r = r_ \div 2 /\ c = c_ \div 2
             THEN FillFromAnyShape(p + 1, idx, [grid EXCEPT ![r + 1][c + 1] = FREE],
                                   nums, r_, c_, free)
             ELSE IF idx < Len(nums)
             THEN FillFromAnyShape(p + 1, idx + 1,
                                   [grid EXCEPT ![r + 1][c + 1] = Str(nums[idx + 1])],
                                   nums, r_, c_, free)
             ELSE FillFromAnyShape(p + 1, idx, grid, nums, r_, c_, free)

\* a faulty loop body: the FREE cell consumes a candidate
RECURSIVE FillFromSkipping(_, _, _, _, _, _, _)
FillFromSkipping(p, idx, grid, nums, r_, c_, free) ==
    IF p >= r_ * c_ THEN grid
    ELSE LET r == p \div c_
             c == p % c_
         IN  IF free /\ r_ = c_ /\ r = r_ \div 2 /\ c = c_ \div 2
             THEN FillFromSkipping(p + 1, idx + 1,
                                   [grid EXCEPT ![r + 1][c + 1] = FREE],
                                   nums, r_, c_, free)
             ELSE IF idx < Len(nums)
             THEN FillFromSkipping(p + 1, idx + 1,
                                   [grid EXCEPT ![r + 1][c + 1] = Str(nums[idx + 1])],
                                   nums, r_, c_, free)
             ELSE FillFromSkipping(p + 1, idx, grid, nums, r_, c_, free)

\* lines 43-48 from cell p on (row-major, p = r * cols + c), with idx
\* candidates placed so far
RECURSIVE FillFrom(_, _, _, _, _, _, _)
FillFrom(p, idx, grid, nums, r_, c_, free) ==
    IF p >= r_ * c_ THEN grid
    ELSE LET r == p \div c_
             c == p % c_
         IN  IF free /\ r_ = c_ /\ r = r_ \div 2 /\ c = c_ \div 2
             THEN FillFrom(p + 1, idx, [grid EXCEPT ![r + 1][c + 1] = FREE],
                           nums, r_, c_, free)
             ELSE IF idx < Len(nums)
             THEN FillFrom(p + 1, idx + 1,
                           [grid EXCEPT ![r + 1][c + 1] = Str(nums[idx + 1])],
                           nums, r_, c_, free)
             ELSE FillFrom(p + 1, idx, grid, nums, r_, c_, free)

\* a faulty fill: the FREE cell is placed on grids of any shape
FillAnyShape(nums, r_, c_, free) ==
    FillFromAnyShape(0, 0, EmptyGrid(r_, c_), nums, r_, c_, free)

\* a faulty fill: the FREE cell consumes a candidate
FillSkipping(nums, r_, c_, free) ==
    FillFromSkipping(0, 0, EmptyGrid(r_, c_), nums, r_, c_, free)

\* lines 41-49: the grid for the shuffled candidates nums
Fill(nums, r_, c_, free) ==
    FillFrom(0, 0, EmptyGrid(r_, c_), nums, r_, c_, free)

\* build_grid: the grids it can return
build_grid(nums, r_, c_, free) ==
    {Fill(s, r_, c_, free) : s \in Shuffle(nums)}

\* a faulty sample: draws with replacement
SampleWithReplacement(a, b, k) == [1..k -> a..b]

\* random.sample(range(a, b + 1), k), for k <= b - a + 1
Sample(a, b, k) == Arrangements(a..b, k)

\* the cells of a grid in row-major order
Cells(g) == [p \in 1..(Len(g) * Len(g[1])) |->
                g[((p - 1) \div Len(g[1])) + 1][((p - 1) % Len(g[1])) + 1]]

IsNumeric(cell) == cell # BLANK /\ cell # FREE

----------------------------------------------------------------------------
(* bingo_generator.py: get_inputs, the main block and generate_pdf         *)

Lower(ch) == IF ch = "Y" THEN "y" ELSE ch
LowerStr(s) == [k \in 1..Len(s) |-> Lower(s[k])]

Junk == {<<>>, <<"x">>}
GenStartAnswers == {Str(k) : k \in 1..MaxEnd} \cup Junk
GenEndAnswers == {Str(k) : k \in 1..MaxEnd} \cup Junk \cup {<<" ", "2">>}
CountAnswers == {Str(k) : k \in 0..(MaxEnd + 1)} \cup Junk
FreeAnswers == {<<"y">>, <<" ", "Y", " ">>, <<"n">>, <<>>, <<"y", "e", "s">>}
CardsAnswers == {Str(k) : k \in 0..MaxCards} \cup Junk \cup {<<"-", "1">>}

\* line 116: the card indices, two to a page
RECURSIVE Pages(_, _)
Pages(from, n) ==
    IF from >= n THEN <<>>
    ELSE <<RangeList(from, Min(from + 1, n - 1))>> \o Pages(from + 2, n)

InitGenerator ==
    /\ script = "generator"
    /\ pc = "g_start"
    /\ env = <<FALSE, FALSE>>
    /\ InitCommon

\* line 170: START is read; ValueError asks again
GenPromptStart ==
    /\ script = "generator" /\ pc = "g_start"
    /\ \E a \in GenStartAnswers :
          IF PyInt(a).ok
          THEN start' = PyInt(a).val /\ pc' = "g_end"
          ELSE start' = start /\ pc' = "g_start"
    /\ UNCHANGED <<script, outcome, sigAt, end, numbers, callerVars, genVars>>

\* lines 171-175: END is read; the loop ends once start < end
GenPromptEnd ==
    /\ script = "generator" /\ pc = "g_end"
    /\ \E a \in GenEndAnswers :
          IF PyInt(a).ok
          THEN /\ end' = PyInt(a).val
               /\ pc' = IF start < end' THEN "g_count" ELSE "g_start"
          ELSE end' = end /\ pc' = "g_start"
    /\ UNCHANGED <<script, outcome, sigAt, start, numbers, callerVars, genVars>>

max_n == end - start + 1

\* lines 178-187: the count is read until it is in 1..max_n, then the grid
\* shape decides whether the FREE question is asked
GenPromptCount ==
    /\ script = "generator" /\ pc = "g_count"
    /\ \E a \in CountAnswers :
          IF PyInt(a).ok /\ 1 <= PyInt(a).val /\ PyInt(a).val <= max_n
          THEN /\ count' = PyInt(a).val
               /\ rows' = grid_dims(count')[1]
               /\ cols' = grid_dims(count')[2]
               /\ pc' = IF rows' = cols' THEN "g_free" ELSE "g_cards"
          ELSE UNCHANGED <<pc, count, rows, cols>>
    /\ UNCHANGED <<script, outcome, sigAt, start, end, numbers, callerVars,
                   num_cards, free_center, todo, fig, pdf>>

\* lines 188-193: "y" turns the center into the FREE cell and sets the
\* count to the other cells of the grid
GenPromptFree ==
    /\ script = "generator" /\ pc = "g_free"
    /\ \E a \in FreeAnswers :
          IF LowerStr(Strip(a)) = <<"y">>
          THEN free_center' = TRUE /\ count' = rows * cols - 1
          ELSE UNCHANGED <<free_center, count>>
    /\ pc' = "g_cards"
    /\ UNCHANGED <<script, outcome, sigAt, start, end, numbers, callerVars,
                   num_cards, rows, cols, todo, fig, pdf>>

\* lines 195-201
GenPromptCards ==
    /\ script = "generator" /\ pc = "g_cards"
    /\ \E a \in CardsAnswers :
          IF PyInt(a).ok /\ PyInt(a).val >= 1
          THEN num_cards' = PyInt(a).val /\ pc' = "g_fname"
          ELSE UNCHANGED <<pc, num_cards>>
    /\ UNCHANGED <<script, outcome, sigAt, start, end, numbers, callerVars,
                   count, free_center, rows, cols, todo, fig, pdf>>

\* lines 203-206: the file name is read and get_inputs returns
GenPromptFname ==
    /\ script = "generator" /\ pc = "g_fname"
    /\ pc' = "g_main"
    /\ UNCHANGED <<script, outcome, sigAt, start, end, numbers, callerVars,
                   genVars>>

\* lines 210-213 and 113-116: grid_dims(count) in the main block, then
\* generate_pdf computes the shape and the pages
GenMain ==
    /\ script = "generator" /\ pc = "g_main"
    /\ IF grid_dims_raises(count)
       THEN /\ pc' = "exited" /\ outcome' = "ZeroDivisionError"
            /\ UNCHANGED <<rows, cols, todo>>
       ELSE /\ rows' = grid_dims(count)[1]
            /\ cols' = grid_dims(count)[2]
            /\ todo' = Pages(0, num_cards)
            /\ pc' = "g_page"
            /\ outcome' = outcome
    /\ UNCHANGED <<script, sigAt, start, end, numbers, callerVars, count,
                   num_cards, free_center, fig, pdf>>

\* lines 124-131 and 139-145: one card of the page: the sample (ValueError
\* when count exceeds the range), the grid, the drawing
GenCard ==
    /\ script = "generator" /\ pc = "g_page"
    /\ todo # <<>> /\ Len(fig) < Len(Head(todo))
    /\ IF count > max_n
       THEN pc' = "exited" /\ outcome' = "ValueError" /\ fig' = fig
       ELSE /\ \E g \in UNION {build_grid(chosen, rows, cols, free_center) :
                                  chosen \in Sample(start, end, count)} :
                   fig' = Append(fig, g)
            /\ UNCHANGED <<pc, outcome>>
    /\ UNCHANGED <<script, sigAt, start, end, numbers, callerVars, count,
                   num_cards, free_center, rows, cols, todo, pdf>>

\* line 147: the page is saved and its figure closed
GenSavePage ==
    /\ script = "generator" /\ pc = "g_page"
    /\ todo # <<>> /\ Len(fig) = Len(Head(todo))
    /\ pdf' = Append(pdf, Len(fig))
    /\ fig' = <<>>
    /\ todo' = Tail(todo)
    /\ UNCHANGED <<script, pc, outcome, sigAt, start, end, numbers, callerVars,
                   count, num_cards, free_center, rows, cols>>

\* lines 149-158: the caller's sheet is the last page (a page of 0 cards)
GenCallerSheet ==
    /\ script = "generator" /\ pc = "g_page"
    /\ todo = <<>>
    /\ pdf' = Append(pdf, 0)
    /\ pc' = "exited"
    /\ outcome' = "ok"
    /\ UNCHANGED <<script, sigAt, start, end, numbers, callerVars, count,
                   num_cards, free_center, rows, cols, todo, fig>>

GenPositions == {"g_start", "g_end", "g_count", "g_free", "g_cards", "g_fname",
                 "g_main", "g_page"}

\* KeyboardInterrupt in the generator: nothing catches it
InterruptGenerator ==
    /\ script = "generator" /\ pc \in GenPositions
    /\ sigAt = "none"
    /\ sigAt' = pc
    /\ pc' = "exited"
    /\ outcome' = "KeyboardInterrupt"
    /\ UNCHANGED <<script, start, end, numbers, callerVars, genVars>>

NextGenerator ==
    \/ GenPromptStart
    \/ GenPromptEnd
    \/ GenPromptCount
    \/ GenPromptFree
    \/ GenPromptCards
    \/ GenPromptFname
    \/ GenMain
    \/ GenCard
    \/ GenSavePage
    \/ GenCallerSheet
    \/ InterruptGenerator

SpecGenerator == InitGenerator /\ [][NextGenerator]_vars

\* either script is run
Init == InitCaller \/ InitGenerator
Next == NextCaller \/ NextGenerator
Spec == Init /\ [][Next]_vars

----------------------------------------------------------------------------
(* grid_dims and build_grid applied to bounded inputs                      *)

InitPure ==
    /\ script = "pure"
    /\ pc = "idle"
    /\ env = <<FALSE, FALSE>>
    /\ InitCommon

\* grid_dims(n) for a count n >= 1
CallGridDims ==
    /\ script = "pure" /\ pc = "idle"
    /\ \E n \in 1..MaxCount :
          /\ count' = n
          /\ rows' = grid_dims(n)[1]
          /\ cols' = grid_dims(n)[2]
    /\ pc' = "grid_dims"
    /\ UNCHANGED <<script, outcome, sigAt, start, end, numbers, callerVars,
                   num_cards, free_center, todo, fig, pdf>>

\* build_grid(numbers, rows, cols, free_center) for distinct candidates,
\* given in ascending order, that are no more than the cells of the grid
CallBuildGrid ==
    /\ script = "pure" /\ pc = "idle"
    /\ \E r_ \in 1..MaxSide, c_ \in 1..MaxSide, free \in BOOLEAN,
          S \in SUBSET (1..MaxNum) :
          /\ Cardinality(S) <= r_ * c_
          /\ numbers' = Sorted(S)
          /\ rows' = r_
          /\ cols' = c_
          /\ free_center' = free
          /\ \E g \in build_grid(numbers', r_, c_, free) : fig' = <<g>>
    /\ pc' = "build_grid"
    /\ UNCHANGED <<script, outcome, sigAt, start, end, callerVars, count,
                   num_cards, todo, pdf>>

NextPure == CallGridDims \/ CallBuildGrid

SpecPure == InitPure /\ [][NextPure]_vars

----------------------------------------------------------------------------
(* The claims.                                                             *)

NoDuplicates(s) == \A a, b \in 1..Len(s) : a # b => s[a] # s[b]

IsPrefix(s, t) == Len(s) <= Len(t) /\ \A k \in 1..Len(s) : s[k] = t[k]

Ascending(s) == \A k \in 1..(Len(s) - 1) : s[k] < s[k + 1]

\* run_caller has shuffled the draw order
CallerShuffled ==
    /\ script = "caller"
    /\ \/ pc \in {"wait_enter", "for", "mkstemp", "save", "play", "finally",
                  "pyttsx_say", "spoken", "sleep", "summary"}
       \/ pc = "exited" /\ (outcome \in {"ok", "Exception"} \/ sigAt = "wait_enter")

\* C1: for every range with start < end the draw order is a permutation of
\* start..end (length end-start+1, no duplicates); the called numbers are
\* always a duplicate-free prefix of the draw order; a loop that finishes
\* without interruption has called exactly the whole range, each number once.
C1_DrawOrderIsPermutation ==
    (CallerShuffled /\ start < end) =>
        /\ Len(numbers) = end - start + 1
        /\ SeqSet(numbers) = start..end
        /\ NoDuplicates(numbers)
        /\ IsPrefix(called, numbers)
        /\ NoDuplicates(called)
        /\ (pc = "exited" /\ outcome = "ok" /\ sigAt = "none") =>
              /\ Len(called) = end - start + 1
              /\ SeqSet(called) = start..end

\* C1: an uninterrupted game over three numbers, drawn out of order
C1_Witness ==
    /\ script = "caller" /\ pc = "exited" /\ outcome = "ok" /\ sigAt = "none"
    /\ start < end
    /\ Len(called) >= 3
    /\ called # RangeList(start, end)

\* C2: when CTRL+C arrives during an announcement or during the countdown,
\* the summary reports as called the numbers delivered so far, and as
\* uncalled the range minus the delivered numbers in ascending order; the
\* two add up to the total.
C2_InterruptedSummary ==
    (script = "caller" /\ pc = "exited" /\ outcome = "ok"
        /\ sigAt \in {"save", "play", "pyttsx_say", "sleep"}) =>
        /\ summary.called = Len(stdout)
        /\ summary.total = Len(numbers)
        /\ SeqSet(summary.uncalled) = (start..end) \ SeqSet(stdout)
        /\ Ascending(summary.uncalled)
        /\ summary.called + Len(summary.uncalled) = summary.total

\* C2: a game of 3 numbers stopped in the countdown after the second draw
C2_Witness ==
    /\ script = "caller" /\ pc = "exited" /\ outcome = "ok"
    /\ sigAt = "sleep"
    /\ summary.called = 2 /\ summary.total = 3
    /\ Len(summary.uncalled) = 1
    /\ Len(stdout) = 2

\* C3 (as claimed): for every count >= 1, grid_dims returns cols =
\* ceil(sqrt(count)), rows = ceil(count / cols), cols >= rows, rows*cols >=
\* count, and rows*cols minimal among all (r, c) with c >= r and r*c >= count.
C3_MinimalAmongAllGrids ==
    (script = "pure" /\ pc = "grid_dims") =>
        /\ cols * cols >= count /\ (cols - 1) * (cols - 1) < count
        /\ rows * cols >= count /\ (rows - 1) * cols < count
        /\ cols >= rows
        /\ \A r \in 1..count, c \in 1..count :
              (c >= r /\ r * c >= count) => rows * cols <= r * c

\* C3 (amended): for every count >= 1, grid_dims returns cols =
\* ceil(sqrt(count)), rows = ceil(count / cols), cols >= rows, rows*cols >=
\* count, and rows*cols minimal among the grids of that width; count = 10
\* gives 3 x 4 and count = 25 gives 5 x 5.
C3_MinimalAtCeilSqrtWidth ==
    (script = "pure" /\ pc = "grid_dims") =>
        /\ cols * cols >= count /\ (cols - 1) * (cols - 1) < count
        /\ rows * cols >= count /\ (rows - 1) * cols < count
        /\ cols >= rows
        /\ \A r \in 1..count : r * cols >= count => rows * cols <= r * cols
        /\ count = 10 => (rows = 3 /\ cols = 4)
        /\ count = 25 => (rows = 5 /\ cols = 5)

\* C3: count = 10 laid out as 3 rows of 4
C3_Witness ==
    script = "pure" /\ pc = "grid_dims" /\ count = 10 /\ rows = 3 /\ cols = 4

\* the numeric cells of a card are pairwise distinct and lie in [start, end]
CardValid(g) ==
    LET cs == Cells(g)
    IN  /\ \A p \in 1..Len(cs) :
              IsNumeric(cs[p]) =>
                  /\ PyInt(cs[p]).ok
                  /\ PyInt(cs[p]).val \in start..end
        /\ \A p, q \in 1..Len(cs) :
              (p # q /\ IsNumeric(cs[p])) => cs[p] # cs[q]

\* C4: every card generate_pdf produces, on the two-cards page and on the
\* lone-card page, has numeric cells that are pairwise distinct and lie in
\* [start, end]; nothing relates the numbers of different cards.
C4_CardNumbersDistinctInRange ==
    script = "generator" => \A k \in 1..Len(fig) : CardValid(fig[k])

\* C4: the lone third card, drawn after a page of two cards, holding three
\* numbers
C4_Witness ==
    /\ script = "generator" /\ pc = "g_page"
    /\ pdf = <<2>>
    /\ Len(fig) = 1
    /\ count = 3
    /\ \E p \in 1..4 : IsNumeric(Cells(fig[1])[p])

\* the 1-based row-major position of the center cell
CenterPos == (rows \div 2) * cols + (cols \div 2) + 1

\* C5: a grid of build_grid holds the FREE marker iff free_center is set
\* and rows = cols; the marker is then in exactly one cell, the center
\* (rows // 2, cols // 2), and the candidate that would have landed there
\* is in the next cell in row-major order.
C5_FreeMarkerOnlyAtCenterOfSquare ==
    (script = "pure" /\ pc = "build_grid") =>
        LET cs == Cells(fig[1])
        IN  /\ (\E p \in 1..Len(cs) : cs[p] = FREE) <=> (free_center /\ rows = cols)
            /\ (free_center /\ rows = cols) =>
                  /\ fig[1][(rows \div 2) + 1][(cols \div 2) + 1] = FREE
                  /\ \A p \in 1..Len(cs) : cs[p] = FREE => p = CenterPos
                  /\ CenterPos < Len(cs) =>
                        (IsNumeric(cs[CenterPos + 1]) <=> Len(numbers) >= CenterPos)

\* C5: a 3 x 3 grid with the marker, whose fifth candidate sits after it
C5_Witness ==
    /\ script = "pure" /\ pc = "build_grid"
    /\ free_center /\ rows = 3 /\ cols = 3
    /\ Len(numbers) = 5
    /\ fig[1][2][2] = FREE
    /\ IsNumeric(fig[1][2][3])

\* what get_inputs hands to generate_pdf is within the documented ranges
InputsValid == start < end /\ 1 <= count /\ count <= max_n /\ num_cards >= 1

\* C6: whatever is answered to the prompts, get_inputs returns start < end,
\* 1 <= count <= end - start + 1 and num_cards >= 1, so grid_dims(count) and
\* the sampling of count numbers from the range never fail.
C6_InputsAlwaysValid ==
    script = "generator" =>
        /\ pc \in {"g_main", "g_page"} => InputsValid
        /\ outcome \notin {"ZeroDivisionError", "ValueError"}

\* C7: whatever is answered to the two range prompts, the draw starts with
\* 1 <= start < end <= 999, so the range is never empty.
C7_RangeNeverEmpty ==
    (script = "caller" /\ pc = "wait_enter") =>
        1 <= start /\ start < end /\ end <= 999

\* C8 (as claimed): in both scripts CTRL+C at any point is caught and ends
\* the run normally, never by an uncaught exception.
C8_InterruptAlwaysCaught == outcome # "KeyboardInterrupt"

\* C8 (amended): CTRL+C is caught, and ends the run normally with the
\* summary, exactly when it arrives in the caller's draw loop (during an
\* announcement or the countdown); at a prompt or the ENTER wait of the
\* caller, and anywhere in the generator, it ends the process uncaught.
C8_InterruptCaughtInDrawLoopOnly ==
    sigAt # "none" =>
        IF script = "caller" /\ sigAt \in {"save", "play", "pyttsx_say", "sleep"}
        THEN /\ outcome \in {"running", "ok"}
             /\ pc \in {"finally", "summary", "exited"}
             /\ pc = "exited" => summary.called = Len(called)
        ELSE pc = "exited" /\ outcome = "KeyboardInterrupt"

\* C8: the caller stopped in the countdown has ended with its summary
C8_Witness ==
    /\ script = "caller" /\ sigAt = "sleep"
    /\ pc = "exited" /\ outcome = "ok"
    /\ summary.called = 1

\* the candidates of build_grid fill the cells in row-major order, the FREE
\* cell aside, each in one cell, and the other cells are blank
AllPlaced ==
    LET cs == Cells(fig[1])
        marker == IF free_center /\ rows = cols THEN 1 ELSE 0
        \* the positions that are not the marker's, in row-major order
        slot(k) == IF marker = 1 /\ k >= CenterPos THEN k + 1 ELSE k
    IN  /\ \A n \in SeqSet(numbers) :
              Cardinality({p \in 1..Len(cs) : cs[p] = Str(n)}) = 1
        /\ \A p \in 1..Len(cs) :
              IsNumeric(cs[p]) => PyInt(cs[p]).ok /\ PyInt(cs[p]).val \in SeqSet(numbers)
        /\ \A k \in 1..(Len(cs) - marker) :
              IF k <= Len(numbers) THEN IsNumeric(cs[slot(k)]) ELSE cs[slot(k)] = BLANK
        /\ Cardinality({p \in 1..Len(cs) : cs[p] = BLANK})
              = rows * cols - Len(numbers) - marker

\* C9 (as claimed): for distinct candidates that are at most rows*cols,
\* build_grid places every candidate in exactly one cell, in row-major order
\* with no gap but the FREE cell, and rows*cols - len - (1 if FREE) cells
\* stay blank.
C9_NoCandidateLost ==
    (script = "pure" /\ pc = "build_grid" /\ Len(numbers) <= rows * cols) =>
        AllPlaced

\* C9 (amended): the same for distinct candidates that are at most the cells
\* left for numbers: rows*cols, less one when the FREE marker is placed.
C9_NoCandidateLostWithinNumberCells ==
    (script = "pure" /\ pc = "build_grid"
        /\ Len(numbers) <= rows * cols
                           - (IF free_center /\ rows = cols THEN 1 ELSE 0)) =>
        AllPlaced

\* C9: three candidates and the marker fill a 2 x 2 grid, no cell blank
C9_Witness ==
    /\ script = "pure" /\ pc = "build_grid"
    /\ free_center /\ rows = 2 /\ cols = 2
    /\ Len(numbers) = 3
    /\ \A p \in 1..4 : Cells(fig[1])[p] # BLANK

\* C10: every edge-tts announcement holds one temporary file of its own,
\* and when the announcement has ended, however it ended, the file is gone
\* unless its removal failed, which is not escalated.
C10_TempFileRemoved ==
    script = "caller" =>
        /\ pc \in {"save", "play", "finally"} =>
              (tmp = i /\ tmp \in files /\ tmp \notin stuck)
        /\ files \subseteq
              (stuck \cup (IF pc \in {"save", "play", "finally"} THEN {tmp} ELSE {}))
        /\ outcome # "OSError"

\* C10: the second announcement was interrupted and its file removed, while
\* the file of the first is still there because its removal failed
C10_Witness ==
    /\ script = "caller" /\ pc = "summary"
    /\ sigAt = "save"
    /\ i = 2
    /\ files = {1} /\ stuck = {1}

=============================================================================
